---- MODULE Spec2Model ----
(***************************************************************************)
(* A model of the file-backed key-value store of src/src/lib.rs (KVStore). *)
(* The file system is a map from path strings to nodes; the handle is the  *)
(* struct KVStore {size, path}; every trait operation is one action.       *)
(***************************************************************************)
EXTENDS Integers, Sequences, FiniteSets, TLC

VARIABLES
  root,   \* the path argument given to KVStore::new
  fs,     \* the file system: path string -> node
  kvs,    \* the handle: [size, path]
  last,   \* the last call and what it returned
  pre,    \* fs and kvs as they were when the last call started
  conc    \* two handles on the same root: where each is in its insert

vars == <<root, fs, kvs, last, pre, conc>>

----------------------------------------------------------------------------
(* Bounds and program constants *)

\* i32 values stored are 1..MaxI32
MaxI32 == 1

\* length of the shard name: &hashed_key[0..10]
ShardLen == 10

----------------------------------------------------------------------------
(* Strings *)

\* str::contains
Contains(s, sub) ==
  \E i \in 1..(Len(s) - Len(sub) + 1) : SubSeq(s, i, i + Len(sub) - 1) = sub

\* str::ends_with
EndsWith(s, sub) ==
  Len(s) >= Len(sub) /\ SubSeq(s, Len(s) - Len(sub) + 1, Len(s)) = sub

\* position of the last "/" of s at or before i, 0 when there is none
RECURSIVE LastSlashFrom(_, _)
LastSlashFrom(s, i) ==
  IF i = 0 THEN 0
  ELSE IF SubSeq(s, i, i) = "/" THEN i ELSE LastSlashFrom(s, i - 1)

LastSlash(s) == LastSlashFrom(s, Len(s))

\* Path::file_name
FileName(p) == SubSeq(p, LastSlash(p) + 1, Len(p))

\* Path::parent
Parent(p) == SubSeq(p, 1, LastSlash(p) - 1)

\* the path the operating system resolves: a trailing separator is dropped
Canon(p) ==
  IF Len(p) > 1 /\ SubSeq(p, Len(p), Len(p)) = "/" THEN SubSeq(p, 1, Len(p) - 1) ELSE p

combine_string(first, second) == first \o second

\* create_file_path without the separator between directory and file name
create_file_path_flat(path, hashed_value, extension) ==
  IF path = "."
  THEN "/" \o hashed_value \o extension
  ELSE path \o hashed_value \o extension

create_file_path(path, hashed_value, extension) ==
  IF path = "."
  THEN "/" \o hashed_value \o extension
  ELSE path \o "/" \o hashed_value \o extension

----------------------------------------------------------------------------
(* Serialization (serde_json) and hashing (sha256) *)

I32 == [ty : {"i32"}, v : 1..MaxI32]
Str == [ty : {"String"}, v : {"1"}]
Values == I32 \cup Str
Types == {"i32", "String"}

Keys == [ty : {"String"}, v : {"a", "b", "c"}]

RECURSIVE Decimal(_)
Decimal(n) ==
  IF n < 10 THEN SubSeq("0123456789", n + 1, n + 1)
  ELSE Decimal(n \div 10) \o SubSeq("0123456789", (n % 10) + 1, (n % 10) + 1)

\* serde_json::to_string
ToJson(x) ==
  IF x.ty = "i32" THEN Decimal(x.v) ELSE "\"" \o x.v \o "\""

IsDigit(c) == \E d \in 0..9 : SubSeq("0123456789", d + 1, d + 1) = c

RECURSIVE ParseDecimal(_)
ParseDecimal(s) ==
  IF Len(s) = 0 THEN 0
  ELSE 10 * ParseDecimal(SubSeq(s, 1, Len(s) - 1))
       + (CHOOSE d \in 0..9 : SubSeq("0123456789", d + 1, d + 1) = SubSeq(s, Len(s), Len(s)))

Ok(v) == [kind |-> "Ok", val |-> v]
Err(e) == [kind |-> "Err", err |-> e]

\* serde_json::from_str::<V>, its error turned into an io::Error (InvalidData)
FromJson(text, ty) ==
  IF ty = "i32"
  THEN IF Len(text) > 0 /\ \A i \in 1..Len(text) : IsDigit(SubSeq(text, i, i))
       THEN Ok([ty |-> "i32", v |-> ParseDecimal(text)])
       ELSE Err("InvalidData")
  ELSE IF Len(text) >= 2 /\ SubSeq(text, 1, 1) = "\"" /\ SubSeq(text, Len(text), Len(text)) = "\""
       THEN Ok([ty |-> "String", v |-> SubSeq(text, 2, Len(text) - 1)])
       ELSE Err("InvalidData")

\* sha256::digest: a fixed-length lowercase hexadecimal digest, one per input,
\* written here with its first twelve characters (the store reads the first
\* ShardLen of them and otherwise only compares whole digests).
\* The digests of "a" and "b" share their first ten characters.
digest(s) ==
  CASE s = "\"a\"" -> "c0ffee0001aa"
    [] s = "\"b\"" -> "c0ffee0001bb"
    [] s = "\"c\"" -> "deadbeef02cc"
    [] OTHER       -> "ffffffffffff"

----------------------------------------------------------------------------
(* The file system (std::fs) *)

\* a node is kept under its path, with the directory it is an entry of and its name
Node(p, dir, d) ==
  LET i == LastSlash(p)
  IN  [dir |-> dir, data |-> d, parent |-> SubSeq(p, 1, i - 1), name |-> SubSeq(p, i + 1, Len(p))]

Exists(f, p) == Canon(p) \in DOMAIN f

\* fs::metadata(p).is_dir()
IsDir(f, p) == Exists(f, p) /\ f[Canon(p)].dir

\* fs::read_dir: the paths of the entries of directory p
ReadDir(f, p) ==
  LET d == Canon(p) IN {q \in DOMAIN f : q # d /\ f[q].parent = d}

\* DirEntry::file_name
EntryName(f, q) == f[q].name

\* the file system with node n put at path p, when p's parent is a directory
Put(f, p, n) ==
  IF n.parent \in DOMAIN f /\ f[n.parent].dir
  THEN [ok |-> TRUE, fs |-> [q \in DOMAIN f \cup {p} |-> IF q = p THEN n ELSE f[q]]]
  ELSE [ok |-> FALSE, fs |-> f]

\* fs::create_dir: fails when the path exists or its parent is no directory
CreateDir(f, p) ==
  IF Exists(f, p) THEN [ok |-> FALSE, fs |-> f] ELSE Put(f, Canon(p), Node(Canon(p), TRUE, ""))

\* fs::write: creates or truncates the file; fails on a directory
WriteFile(f, p, d) ==
  IF IsDir(f, p) THEN [ok |-> FALSE, fs |-> f] ELSE Put(f, Canon(p), Node(Canon(p), FALSE, d))

\* fs::remove_file
CanRemoveFile(f, p) == Exists(f, p) /\ ~IsDir(f, p)
RemoveFile(f, p) == [q \in DOMAIN f \ {Canon(p)} |-> f[q]]

\* fs::remove_dir_all: the directory and what it holds (shards hold files only)
RemoveDirAll(f, p) ==
  LET d == Canon(p) IN [q \in {r \in DOMAIN f : r # d /\ f[r].parent # d} |-> f[q]]

\* the orders in which read_dir may list directory p
RECURSIVE Orders(_)
Orders(S) ==
  IF S = {} THEN {<<>>}
  ELSE UNION {{<<x>> \o o : o \in Orders(S \ {x})} : x \in S}

Listings(f, p) == Orders(ReadDir(f, p))

----------------------------------------------------------------------------
(* KVStore: the operations of the trait, as functions of the file system,    *)
(* the handle, the arguments and the order in which read_dir lists the root. *)
(* Each yields the file system and handle it leaves and the result returned. *)

Outcome(f, self, res) == [fs |-> f, kvs |-> self, res |-> res]

\* fs::create_dir_all: the directory is made, whatever of its ancestors is missing
\* (the paths a store is opened at have one component: their parent is the
\* working directory)
CreateDirAll(f, path) ==
  IF Exists(f, path) THEN f
  ELSE [q \in DOMAIN f \cup {Canon(path)} |->
          IF q = Canon(path) THEN Node(Canon(path), TRUE, "") ELSE f[q]]

\* the entries the recovery walk of KVStore::new counts
CountedOnOpen(f, path) ==
  {filename2 \in UNION {ReadDir(f, filename) : filename \in {e \in ReadDir(f, path) : IsDir(f, e)}} :
     Contains(filename2, ".key")}

\* KVStore::new
New(f, path) ==
  LET f1 == CreateDirAll(f, path)
      is_empty == ReadDir(f1, path) = {}
      last_char == SubSeq(path, Len(path), Len(path))
      sanitized_path == IF ~Contains(last_char, "/") THEN path \o "/" ELSE path
      counter == Cardinality(CountedOnOpen(f1, path))
  IN  IF is_empty
      THEN Outcome(f1, [size |-> 0, path |-> sanitized_path], Ok("handle"))
      ELSE Outcome(f1, [size |-> counter, path |-> sanitized_path], Ok("handle"))

\* KVStore::size
size(self) == self.size

\* InsertScan without the look for the key-record in the shard
RECURSIVE InsertScanNoCheck(_, _, _, _)
InsertScanNoCheck(f, ord, first_ten_key, key_file_name) ==
  IF ord = <<>> THEN "absent"
  ELSE IF Len(EntryName(f, Head(ord))) = ShardLen
          /\ first_ten_key = SubSeq(EntryName(f, Head(ord)), 1, ShardLen)
       THEN "exists"
       ELSE InsertScanNoCheck(f, Tail(ord), first_ten_key, key_file_name)

\* the scan of the root in insert: "AlreadyExists", or whether the shard exists
RECURSIVE InsertScan(_, _, _, _)
InsertScan(f, ord, first_ten_key, key_file_name) ==
  IF ord = <<>> THEN "absent"
  ELSE LET subdirectory_path == Head(ord)
           subdirectory_name == EntryName(f, subdirectory_path)
       IN  IF Len(subdirectory_name) = ShardLen
              /\ first_ten_key = SubSeq(subdirectory_name, 1, ShardLen)
           THEN IF IsDir(f, subdirectory_path)
                   /\ \E entry \in ReadDir(f, subdirectory_path) : EntryName(f, entry) = key_file_name
                THEN "AlreadyExists"
                ELSE "exists"
           ELSE InsertScan(f, Tail(ord), first_ten_key, key_file_name)

\* InsertWrites with the serialized key written to both files
InsertWritesKeyTwice(f, self, key_file_path, value_file_path, serialize_key, serialize_value) ==
  LET w1 == WriteFile(f, key_file_path, serialize_key)
      w2 == WriteFile(w1.fs, value_file_path, serialize_key)
  IN  IF ~w1.ok THEN Outcome(f, self, [kind |-> "Panic"])
      ELSE IF ~w2.ok THEN Outcome(w1.fs, self, [kind |-> "Panic"])
      ELSE Outcome(w2.fs, self, Ok("unit"))

\* the two writes of insert; a write that fails aborts the process (expect)
InsertWrites(f, self, key_file_path, value_file_path, serialize_key, serialize_value) ==
  LET w1 == WriteFile(f, key_file_path, serialize_key)
      w2 == WriteFile(w1.fs, value_file_path, serialize_value)
  IN  IF ~w1.ok THEN Outcome(f, self, [kind |-> "Panic"])
      ELSE IF ~w2.ok THEN Outcome(w1.fs, self, [kind |-> "Panic"])
      ELSE Outcome(w2.fs, self, Ok("unit"))

\* KVStore::insert
Insert(f, self, key, value, ord) ==
  LET serialize_key == ToJson(key)
      serialize_value == ToJson(value)
      hashed_key == digest(serialize_key)
      key_file_name == combine_string(hashed_key, ".key")
      first_ten_key == SubSeq(hashed_key, 1, ShardLen)
      desired_subdirectory_path == combine_string(self.path, first_ten_key)
      scan == InsertScan(f, ord, first_ten_key, key_file_name)
      made == CreateDir(f, desired_subdirectory_path)
      key_file_path == create_file_path(desired_subdirectory_path, hashed_key, ".key")
      value_file_path == create_file_path(desired_subdirectory_path, hashed_key, ".value")
  IN  IF scan = "AlreadyExists" THEN Outcome(f, self, Err("AlreadyExists"))
      ELSE IF scan = "absent" /\ ~made.ok THEN Outcome(f, self, Err("Io"))
      ELSE InsertWrites(IF scan = "absent" THEN made.fs ELSE f,
                        self, key_file_path, value_file_path, serialize_key, serialize_value)

\* lookup that deletes the value-record it has read
RECURSIVE LookupConsumes(_, _, _, _, _)
LookupConsumes(f, self, key, ty, ord) ==
  LET hashed_key == digest(ToJson(key))
      first_ten_key == SubSeq(hashed_key, 1, ShardLen)
  IN  IF ord = <<>> THEN Outcome(f, self, Err("NotFound"))
      ELSE LET entire_file_path == Head(ord) \o "/" \o hashed_key \o ".value"
           IN  IF Len(EntryName(f, Head(ord))) >= ShardLen
                  /\ first_ten_key = SubSeq(EntryName(f, Head(ord)), 1, ShardLen)
                  /\ IsDir(f, Head(ord))
               THEN IF Exists(f, entire_file_path) /\ ~IsDir(f, entire_file_path)
                    THEN Outcome(RemoveFile(f, entire_file_path), self,
                                 FromJson(f[entire_file_path].data, ty))
                    ELSE Outcome(f, self, Err("NotFound"))
               ELSE LookupConsumes(f, self, key, ty, Tail(ord))

\* KVStore::lookup
RECURSIVE Lookup(_, _, _, _, _)
Lookup(f, self, key, ty, ord) ==
  LET hashed_key == digest(ToJson(key))
      value_file_name == combine_string(hashed_key, ".value")
      first_ten_key == SubSeq(hashed_key, 1, ShardLen)
  IN  IF ord = <<>> THEN Outcome(f, self, Err("NotFound"))
      ELSE LET subdirectory_path == Head(ord)
               subdirectory_name == EntryName(f, subdirectory_path)
               entire_file_path == subdirectory_path \o "/" \o hashed_key \o ".value"
           IN  IF Len(subdirectory_name) >= ShardLen
                  /\ first_ten_key = SubSeq(subdirectory_name, 1, ShardLen)
                  /\ IsDir(f, subdirectory_path)
               THEN IF \E entry \in ReadDir(f, subdirectory_path) : EntryName(f, entry) = value_file_name
                    THEN IF IsDir(f, entire_file_path)
                         THEN Outcome(f, self, Err("Io"))
                         ELSE Outcome(f, self, FromJson(f[entire_file_path].data, ty))
                    ELSE Outcome(f, self, Err("NotFound"))
               ELSE Lookup(f, self, key, ty, Tail(ord))

\* Prune that keeps the directory / that deletes it whatever it holds
PruneNever(f, subdirectory_path) == f
PruneAlways(f, subdirectory_path) == RemoveDirAll(f, subdirectory_path)

\* the end of remove: the shard directory is deleted when it is empty
Prune(f, subdirectory_path) ==
  IF ReadDir(f, subdirectory_path) = {} THEN RemoveDirAll(f, subdirectory_path) ELSE f

\* remove, once the value-record of the key is found in the shard
\* remove that never deletes the key-record
RemoveFoundKeepsKey(f, self, subdirectory_path, hashed_key, ty) ==
  LET entire_file_path == subdirectory_path \o "/" \o hashed_key \o ".value"
  IN  IF IsDir(f, entire_file_path) THEN Outcome(f, self, Err("Io"))
      ELSE LET deserialize_value == FromJson(f[entire_file_path].data, ty)
               f2 == RemoveFile(f, entire_file_path)
           IN  IF deserialize_value.kind = "Err"
               THEN Outcome(f, self, deserialize_value)
               ELSE Outcome(Prune(f2, subdirectory_path), self, deserialize_value)

RemoveFound(f, self, subdirectory_path, hashed_key, ty) ==
  LET key_path == subdirectory_path \o "/" \o hashed_key \o ".key"
      entire_file_path == subdirectory_path \o "/" \o hashed_key \o ".value"
      has_key == \E entry1 \in ReadDir(f, subdirectory_path) :
                    EntryName(f, entry1) = combine_string(hashed_key, ".key")
  IN  IF has_key /\ ~CanRemoveFile(f, key_path) THEN Outcome(f, self, Err("Io"))
      ELSE LET f1 == IF has_key THEN RemoveFile(f, key_path) ELSE f
           IN  IF IsDir(f1, entire_file_path) THEN Outcome(f1, self, Err("Io"))
               ELSE LET deserialize_value == FromJson(f1[entire_file_path].data, ty)
                        f2 == RemoveFile(f1, entire_file_path)
                    IN  IF deserialize_value.kind = "Err"
                        THEN Outcome(f1, self, deserialize_value)
                        ELSE Outcome(Prune(f2, subdirectory_path), self, deserialize_value)

\* remove that reads the value as lookup does and deletes nothing
RemoveAsLookup(f, self, key, ty, ord) == Lookup(f, self, key, ty, ord)

\* KVStore::remove
RECURSIVE Remove(_, _, _, _, _)
Remove(f, self, key, ty, ord) ==
  LET hashed_key == digest(ToJson(key))
      value_file_name == combine_string(hashed_key, ".value")
      first_ten_key == SubSeq(hashed_key, 1, ShardLen)
  IN  IF ord = <<>> THEN Outcome(f, self, Err("NotFound"))
      ELSE LET subdirectory_path == Head(ord)
               subdirectory_name == EntryName(f, subdirectory_path)
           IN  IF Len(subdirectory_name) >= ShardLen
                  /\ first_ten_key = SubSeq(subdirectory_name, 1, ShardLen)
                  /\ IsDir(f, subdirectory_path)
               THEN IF \E entry \in ReadDir(f, subdirectory_path) : EntryName(f, entry) = value_file_name
                    THEN RemoveFound(f, self, subdirectory_path, hashed_key, ty)
                    ELSE Outcome(f, self, Err("NotFound"))
               ELSE Remove(f, self, key, ty, Tail(ord))

----------------------------------------------------------------------------
(* The store used through one handle *)

\* the paths a store is opened at: main.rs and the fuzz target open "."
Paths == {".", "db", "kv.keys/"}

\* the handles that run insert concurrently, and a handle not in a call
Handles == {1, 2}
Idle == [pc |-> "idle", key |-> "none", value |-> "none", absent |-> FALSE, res |-> "none"]

Call(op, key, value, ty, res) == [op |-> op, key |-> key, value |-> value, ty |-> ty, res |-> res]

\* the state KVStore::new(path) leaves when nothing is stored at path yet
Opened(path) ==
  LET r == New(IF path = "." THEN ("." :> Node(".", TRUE, "")) ELSE <<>>, path)
  IN  /\ root = path
      /\ fs = r.fs
      /\ kvs = r.kvs
      /\ last = Call("new", "none", "none", "none", r.res)
      /\ pre = [fs |-> r.fs, kvs |-> r.kvs]
      /\ conc = [h |-> [h \in Handles |-> Idle], lastw |-> 0]

Init == Opened(".")

InitPaths == \E path \in Paths : Opened(path)

Apply(r, call) ==
  /\ fs' = r.fs
  /\ kvs' = r.kvs
  /\ last' = [call EXCEPT !.res = r.res]
  /\ pre' = [fs |-> fs, kvs |-> kvs]
  /\ UNCHANGED <<root, conc>>

\* dropping the handle and opening the store again at the same path
OpenAct ==
  \E path \in {root} :
    Apply(New(fs, path), Call("new", "none", "none", "none", "none"))

InsertAct ==
  \E key \in Keys, value \in Values, ord \in Listings(fs, kvs.path) :
    Apply(Insert(fs, kvs, key, value, ord), Call("insert", key, value, value.ty, "none"))

LookupAct ==
  \E key \in Keys, ty \in Types, ord \in Listings(fs, kvs.path) :
    Apply(Lookup(fs, kvs, key, ty, ord), Call("lookup", key, "none", ty, "none"))

RemoveAct ==
  \E key \in Keys, ty \in Types, ord \in Listings(fs, kvs.path) :
    Apply(Remove(fs, kvs, key, ty, ord), Call("remove", key, "none", ty, "none"))

Next == OpenAct \/ InsertAct \/ LookupAct \/ RemoveAct

Spec == Init /\ [][Next]_vars

\* the same store, opened at any of Paths
SpecPaths == InitPaths /\ [][Next]_vars

\* files of other programs that may come to lie in the root: a file at the
\* top level, and a file in a shard directory that is no entry file
Foreign(path) ==
  {Canon(path) \o "/notes.key",
   Canon(path) \o "/" \o SubSeq(digest(ToJson([ty |-> "String", v |-> "a"])), 1, ShardLen)
               \o "/old.key.bak"}

\* another program writes one of these files
PlaceAct ==
  \E p \in Foreign(root) :
    /\ ~Exists(fs, p)
    /\ WriteFile(fs, p, "").ok
    /\ fs' = WriteFile(fs, p, "").fs
    /\ last' = Call("place", "none", "none", "none", Ok(p))
    /\ pre' = [fs |-> fs, kvs |-> kvs]
    /\ UNCHANGED <<root, kvs, conc>>

NextOpen == OpenAct \/ InsertAct \/ PlaceAct

\* opening a store in whose root other files coexist with the entries
SpecOpen == InitPaths /\ [][NextOpen]_vars

\* a directory of another program in the root whose name is longer than a
\* shard name and begins with the shard prefix of the keys "a" and "b"
Lookalike(path) ==
  Canon(path) \o "/" \o SubSeq(digest(ToJson([ty |-> "String", v |-> "a"])), 1, ShardLen)
              \o ".bak"

\* another program creates that directory
PlaceDirAct ==
  \E p \in {Lookalike(root)} :
    /\ ~Exists(fs, p)
    /\ CreateDir(fs, p).ok
    /\ fs' = CreateDir(fs, p).fs
    /\ last' = Call("place", "none", "none", "none", Ok(p))
    /\ pre' = [fs |-> fs, kvs |-> kvs]
    /\ UNCHANGED <<root, kvs, conc>>

NextLookalike == InsertAct \/ LookupAct \/ RemoveAct \/ PlaceDirAct

\* the store used in a root that holds such a directory
SpecLookalike == Init /\ [][NextLookalike]_vars

\* what another program may leave in the way of an insert: a regular file
\* where the shard of key "c" would be, and a directory where the
\* value-record of key "a" would be
Obstacles(path) ==
  LET hc == digest(ToJson([ty |-> "String", v |-> "c"]))
      ha == digest(ToJson([ty |-> "String", v |-> "a"]))
  IN  {[path |-> Canon(path) \o "/" \o SubSeq(hc, 1, ShardLen), dir |-> FALSE],
       [path |-> Canon(path) \o "/" \o SubSeq(ha, 1, ShardLen) \o "/" \o ha \o ".value",
        dir |-> TRUE]}

\* another program creates one of them
ObstructAct ==
  \E o \in Obstacles(root) :
    LET r == IF o.dir THEN CreateDir(fs, o.path) ELSE WriteFile(fs, o.path, "")
    IN  /\ ~Exists(fs, o.path)
        /\ r.ok
        /\ fs' = r.fs
        /\ last' = Call("place", "none", "none", "none", Ok(o.path))
        /\ pre' = [fs |-> fs, kvs |-> kvs]
        /\ UNCHANGED <<root, kvs, conc>>

\* insert is called by a process that has not panicked
InsertAliveAct == last.res.kind # "Panic" /\ InsertAct

\* after a panic the program is started again and opens the store
RestartAct == last.res.kind = "Panic" /\ OpenAct

NextFaults == InsertAliveAct \/ ObstructAct \/ RestartAct

\* inserts whose file writes can fail
SpecFaults == Init /\ [][NextFaults]_vars

----------------------------------------------------------------------------
(* Two handles opened on the same root (both hold the path and size of kvs), *)
(* each running insert one file system call at a time. The scan of the root  *)
(* and of the shard is taken as one step.                                    *)

Proceed(h, to) == conc' = [conc EXCEPT !.h[h].pc = to]

Finish(h, res) == conc' = [conc EXCEPT !.h[h].pc = "done", !.h[h].res = res]

\* insert(key, value) is called on handle h
CallInsertAct ==
  \E h \in Handles, key \in Keys, value \in Values :
    /\ conc.h[h].pc = "idle"
    /\ conc' = [conc EXCEPT !.h[h] = [Idle EXCEPT !.pc = "scan", !.key = key, !.value = value]]
    /\ UNCHANGED <<root, fs, kvs, last, pre>>

\* the loop over read_dir(self.path); absent records whether the key-record
\* was absent when the shard was listed
ScanAct ==
  \E h \in Handles, ord \in Listings(fs, kvs.path) :
    LET key == conc.h[h].key
        hashed_key == digest(ToJson(key))
        scan == InsertScan(fs, ord, SubSeq(hashed_key, 1, ShardLen),
                           combine_string(hashed_key, ".key"))
        seen == [conc EXCEPT !.h[h].absent =
                   \A e \in DOMAIN fs : fs[e].name # combine_string(hashed_key, ".key")]
    IN  /\ conc.h[h].pc = "scan"
        /\ conc' = IF scan = "AlreadyExists"
                   THEN [seen EXCEPT !.h[h].pc = "done", !.h[h].res = Err("AlreadyExists")]
                   ELSE [seen EXCEPT !.h[h].pc =
                           IF scan = "absent" THEN "create_dir" ELSE "write_key"]
        /\ UNCHANGED <<root, fs, kvs, last, pre>>

\* fs::create_dir(&desired_subdirectory_path)?
CreateDirAct ==
  \E h \in Handles :
    LET hashed_key == digest(ToJson(conc.h[h].key))
        made == CreateDir(fs, combine_string(kvs.path, SubSeq(hashed_key, 1, ShardLen)))
    IN  /\ conc.h[h].pc = "create_dir"
        /\ fs' = made.fs
        /\ IF made.ok THEN Proceed(h, "write_key") ELSE Finish(h, Err("Io"))
        /\ UNCHANGED <<root, kvs, last, pre>>

\* fs::write(&key_file_path, serialize_key).expect(..)
WriteKeyAct ==
  \E h \in Handles :
    LET key == conc.h[h].key
        hashed_key == digest(ToJson(key))
        desired_subdirectory_path == combine_string(kvs.path, SubSeq(hashed_key, 1, ShardLen))
        w == WriteFile(fs, create_file_path(desired_subdirectory_path, hashed_key, ".key"),
                       ToJson(key))
    IN  /\ conc.h[h].pc = "write_key"
        /\ fs' = w.fs
        /\ IF w.ok THEN Proceed(h, "write_value") ELSE Finish(h, [kind |-> "Panic"])
        /\ UNCHANGED <<root, kvs, last, pre>>

\* fs::write(&value_file_path, serialize_value).expect(..); Ok(())
WriteValueAct ==
  \E h \in Handles :
    LET hashed_key == digest(ToJson(conc.h[h].key))
        desired_subdirectory_path == combine_string(kvs.path, SubSeq(hashed_key, 1, ShardLen))
        w == WriteFile(fs, create_file_path(desired_subdirectory_path, hashed_key, ".value"),
                       ToJson(conc.h[h].value))
    IN  /\ conc.h[h].pc = "write_value"
        /\ fs' = w.fs
        /\ conc' = IF w.ok
                   THEN [conc EXCEPT !.h[h].pc = "done", !.h[h].res = Ok("unit"), !.lastw = h]
                   ELSE [conc EXCEPT !.h[h].pc = "done", !.h[h].res = [kind |-> "Panic"]]
        /\ UNCHANGED <<root, kvs, last, pre>>

\* the caller takes the result
ReturnAct ==
  \E h \in Handles :
    /\ conc.h[h].pc = "done"
    /\ conc.h[h].res.kind # "Panic"
    /\ conc' = [conc EXCEPT !.h[h] = Idle]
    /\ UNCHANGED <<root, fs, kvs, last, pre>>

NextTwo ==
  CallInsertAct \/ ScanAct \/ CreateDirAct \/ WriteKeyAct \/ WriteValueAct \/ ReturnAct

SpecTwo == Init /\ [][NextTwo]_vars

----------------------------------------------------------------------------
(* The vocabulary of the properties: where the layout scheme puts an entry *)

ShardOf(self, key) == Canon(self.path) \o "/" \o SubSeq(digest(ToJson(key)), 1, ShardLen)
KeyRecord(self, key) == ShardOf(self, key) \o "/" \o digest(ToJson(key)) \o ".key"
ValueRecord(self, key) == ShardOf(self, key) \o "/" \o digest(ToJson(key)) \o ".value"

\* a live entry: the key-record of the key exists
Live(f, self, key) == KeyRecord(self, key) \in DOMAIN f

\* the files in the immediate subdirectories of the root whose name ends in .key
KeyRecords(f, path) ==
  {q \in DOMAIN f : /\ ~f[q].dir
                    /\ f[q].parent \in ReadDir(f, path)
                    /\ EndsWith(f[q].name, ".key")}

\* the value whose serialization the value-record of key holds
StoredValue(f, self, key) == CHOOSE v \in Values : ToJson(v) = f[ValueRecord(self, key)].data

\* the last call returned Ok / failed with error e
Returned(op) == last.op = op /\ last.res.kind = "Ok"
Failed(op, e) == last.op = op /\ last.res = Err(e)

\* two distinct keys stored in the same shard under different digests
SameShard(k1, k2) ==
  /\ k1 # k2
  /\ digest(ToJson(k1)) # digest(ToJson(k2))
  /\ SubSeq(digest(ToJson(k1)), 1, ShardLen) = SubSeq(digest(ToJson(k2)), 1, ShardLen)

----------------------------------------------------------------------------
(* C1 *)

\* C1: between operations, size() equals the number of key-record files in
\* the shard directories under the root.
C1_SizeIsKeyRecordCount == size(kvs) = Cardinality(KeyRecords(fs, root))

(* C2 *)

\* C2: insert(k, v) of a key without live entry returns Ok, and a lookup(k)
\* that follows at once returns exactly v, whatever else is stored.
C2_InsertThenLookup ==
  (last.op = "insert" /\ ~Live(pre.fs, pre.kvs, last.key)) =>
     /\ last.res = Ok("unit")
     /\ \A ord \in Listings(fs, kvs.path) :
          Lookup(fs, kvs, last.key, last.value.ty, ord).res = Ok(last.value)

\* an insert of an absent key into a store that holds other entries, of a
\* value whose serialization differs from the value
C2_Witness ==
  /\ Returned("insert")
  /\ ~Live(pre.fs, pre.kvs, last.key)
  /\ KeyRecords(pre.fs, root) # {}
  /\ last.value.ty = "String"

(* C3 *)

\* C3: a successful insert raises size() by one, a successful remove lowers
\* it by one, and lookup and every failing insert or remove leave it alone.
C3_SizeSteps ==
  /\ Returned("insert") => size(kvs) = size(pre.kvs) + 1
  /\ Returned("remove") => size(kvs) = size(pre.kvs) - 1
  /\ (last.op = "lookup" \/ (last.op \in {"insert", "remove"} /\ last.res.kind # "Ok"))
        => size(kvs) = size(pre.kvs)

(* C4 *)

\* C4: insert(k, v2) on a key with a live entry fails AlreadyExists for every
\* v2 and leaves every file and directory, the value lookup(k) returns and
\* size() as they were.
C4_DuplicateInsert ==
  (last.op = "insert" /\ Live(pre.fs, pre.kvs, last.key)) =>
     /\ last.res = Err("AlreadyExists")
     /\ fs = pre.fs
     /\ size(kvs) = size(pre.kvs)
     /\ LET v1 == StoredValue(pre.fs, pre.kvs, last.key)
        IN  \A ord \in Listings(fs, kvs.path) :
              Lookup(fs, kvs, last.key, v1.ty, ord).res = Ok(v1)

\* a rejected insert of a value other than the stored one
C4_Witness ==
  /\ Failed("insert", "AlreadyExists")
  /\ Live(pre.fs, pre.kvs, last.key)
  /\ StoredValue(fs, kvs, last.key) # last.value

(* C5 *)

\* C5: lookup(k) and remove(k) of a key without live entry fail NotFound and
\* change no file, no directory and not size().
C5_AbsentKeyNotFound ==
  (last.op \in {"lookup", "remove"} /\ ~Live(pre.fs, pre.kvs, last.key)) =>
     /\ last.res = Err("NotFound")
     /\ fs = pre.fs
     /\ size(kvs) = size(pre.kvs)

(* C6 *)

\* C6: after a successful insert(k, v), remove(k) returns exactly v, a lookup(k)
\* after it fails NotFound, and size() is then what it was before the insert.
C6_InsertThenRemove ==
  Returned("insert") =>
     \A ord \in Listings(fs, kvs.path) :
        LET r == Remove(fs, kvs, last.key, last.value.ty, ord)
        IN  /\ r.res = Ok(last.value)
            /\ size(r.kvs) = size(pre.kvs)
            /\ \A ty \in Types, ord2 \in Listings(r.fs, r.kvs.path) :
                  Lookup(r.fs, r.kvs, last.key, ty, ord2).res = Err("NotFound")

\* a successful insert into a shard that holds another entry
C6_Witness ==
  /\ Returned("insert")
  /\ \E k2 \in Keys : SameShard(last.key, k2) /\ Live(fs, kvs, k2)

(* C7 *)

\* the entries of the shard of key other than the two records of key
OthersInShard(f, self, key) ==
  ReadDir(f, ShardOf(self, key)) \ {KeyRecord(self, key), ValueRecord(self, key)}

\* C7: no shard directory is ever empty between operations; a successful
\* remove deletes the shard directory when the shard held nothing but the
\* records of the key, and otherwise keeps the directory and the other entries.
C7_NoEmptyShard ==
  /\ \A d \in ReadDir(fs, root) : IsDir(fs, d) => ReadDir(fs, d) # {}
  /\ Returned("remove") =>
       LET others == OthersInShard(pre.fs, pre.kvs, last.key)
       IN  IF others = {}
           THEN ~Exists(fs, ShardOf(pre.kvs, last.key))
           ELSE /\ IsDir(fs, ShardOf(pre.kvs, last.key))
                /\ ReadDir(fs, ShardOf(pre.kvs, last.key)) = others
                /\ \A q \in others : fs[q] = pre.fs[q]

\* a remove that took the last entry of its shard, and the shard with it
C7_Witness ==
  /\ Returned("remove")
  /\ OthersInShard(pre.fs, pre.kvs, last.key) = {}
  /\ ~Exists(fs, ShardOf(pre.kvs, last.key))
  /\ ReadDir(fs, root) # {}

(* C8 *)

\* C8: a handle opened on a path where entries were inserted (and some
\* removed again) has size() equal to the number of live entries, and lookup
\* through it returns every live entry.
C8_ReopenCountsLive ==
  last.op = "new" =>
     /\ size(kvs) = Cardinality({k \in Keys : Live(fs, kvs, k)})
     /\ \A k \in Keys : Live(fs, kvs, k) =>
          \A ord \in Listings(fs, kvs.path) :
             Lookup(fs, kvs, k, StoredValue(fs, kvs, k).ty, ord).res
                = Ok(StoredValue(fs, kvs, k))

(* C9 *)

\* C9: two distinct keys of one shard are both insertable, each lookup
\* returns its own value, and a remove of one leaves the key-record, the
\* value-record and the shard directory of the other in place, so that lookup
\* and remove of the other still return its own value.
C9_SameShardKeys ==
  \A k2 \in Keys :
    (last.op \in {"insert", "remove"} /\ SameShard(last.key, k2)
       /\ Live(pre.fs, pre.kvs, k2) /\ Exists(pre.fs, ValueRecord(pre.kvs, k2))) =>
      LET v2 == StoredValue(pre.fs, pre.kvs, k2)
          own == \A ord \in Listings(fs, kvs.path) :
                   /\ Lookup(fs, kvs, k2, v2.ty, ord).res = Ok(v2)
                   /\ Remove(fs, kvs, k2, v2.ty, ord).res = Ok(v2)
      IN  /\ (last.op = "insert" /\ ~Live(pre.fs, pre.kvs, last.key)) =>
               /\ last.res = Ok("unit")
               /\ own
               /\ \A ord \in Listings(fs, kvs.path) :
                    Lookup(fs, kvs, last.key, last.value.ty, ord).res = Ok(last.value)
          /\ Returned("remove") =>
               /\ IsDir(fs, ShardOf(kvs, k2))
               /\ Exists(fs, KeyRecord(kvs, k2))
               /\ fs[KeyRecord(kvs, k2)] = pre.fs[KeyRecord(kvs, k2)]
               /\ Exists(fs, ValueRecord(kvs, k2))
               /\ fs[ValueRecord(kvs, k2)] = pre.fs[ValueRecord(kvs, k2)]
               /\ own

\* a successful remove of one of two live keys of one shard
C9_Witness ==
  /\ Returned("remove")
  /\ Live(pre.fs, pre.kvs, last.key)
  /\ \E k2 \in Keys : SameShard(last.key, k2) /\ Live(fs, kvs, k2)

(* C10 *)

\* C10: open sets size to the number of files whose name ends in .key inside
\* the immediate subdirectories of the root, whatever else lies in the root.
C10_OpenCountsKeyRecords ==
  last.op = "new" => size(kvs) = Cardinality(KeyRecords(fs, root))

(* C11 *)

\* C11: a remove(k) that returns an error leaves the key-record and the
\* value-record of k, the shard directory and size() as they were before the
\* call (the value is read and deserialized before anything is deleted).
C11_FailedRemoveChangesNothing ==
  (last.op = "remove" /\ last.res.kind = "Err") =>
     /\ \A q \in {KeyRecord(pre.kvs, last.key), ValueRecord(pre.kvs, last.key),
                  ShardOf(pre.kvs, last.key)} :
          /\ Exists(fs, q) <=> Exists(pre.fs, q)
          /\ Exists(fs, q) => fs[q] = pre.fs[q]
     /\ size(kvs) = size(pre.kvs)

(* C12 *)

\* C12: in every state between operations the value-record of a key exists
\* in its shard exactly when its key-record exists there.
C12_RecordsComeInPairs ==
  \A k \in Keys : Exists(fs, ValueRecord(kvs, k)) <=> Exists(fs, KeyRecord(kvs, k))

(* C13 *)

\* C13: a lookup, whatever it returns, leaves every file and directory and
\* the handle as they were, and the same lookup made again returns the same.
C13_LookupReadOnly ==
  last.op = "lookup" =>
     /\ fs = pre.fs
     /\ kvs = pre.kvs
     /\ \A ord \in Listings(fs, kvs.path) :
          Lookup(fs, kvs, last.key, last.ty, ord) = Outcome(pre.fs, pre.kvs, last.res)

\* a lookup that failed to deserialize the stored value
C13_Witness ==
  /\ Failed("lookup", "InvalidData")
  /\ Live(fs, kvs, last.key)

(* C16 *)

Hashes == {digest(ToJson(k)) : k \in Keys}

\* a directory directly under the root named by the first ShardLen
\* characters of the hash h
IsShardFor(f, self, d, h) ==
  /\ Exists(f, d)
  /\ f[d].dir
  /\ f[d].parent = Canon(self.path)
  /\ f[d].name = SubSeq(h, 1, ShardLen)

\* C16: every file under the root is named <full hash>.key or
\* <full hash>.value and sits directly in the directory of the root named by
\* the first 10 characters of that hash, every directory is such a shard,
\* and after a successful insert both files of the key are there.
C16_EntriesAtLayout ==
  /\ \A q \in DOMAIN fs :
       \/ q = Canon(kvs.path)
       \/ \E h \in Hashes : IsShardFor(fs, kvs, q, h)
       \/ /\ ~fs[q].dir
          /\ \E h \in Hashes :
               /\ fs[q].name \in {h \o ".key", h \o ".value"}
               /\ IsShardFor(fs, kvs, fs[q].parent, h)
  /\ Returned("insert") =>
       LET h == digest(ToJson(last.key))
       IN  \E kq, vq \in DOMAIN fs :
             /\ fs[kq].name = h \o ".key" /\ ~fs[kq].dir
             /\ fs[vq].name = h \o ".value" /\ ~fs[vq].dir
             /\ fs[kq].parent = fs[vq].parent
             /\ IsShardFor(fs, kvs, fs[kq].parent, h)

\* two entries in one shard and one in another, the last just inserted
C16_Witness ==
  /\ Returned("insert")
  /\ \A k \in Keys : Live(fs, kvs, k)

(* C18 *)

\* C18: a successful insert(k, v) adds the key-record and the value-record
\* of k, both new, and at most the shard of k; every file and directory
\* that was there stays as it was, and lookup of every other key returns
\* what it returned before.
C18_InsertFrame ==
  Returned("insert") =>
     LET kq == KeyRecord(pre.kvs, last.key)
         vq == ValueRecord(pre.kvs, last.key)
         sq == ShardOf(pre.kvs, last.key)
     IN  /\ ~Exists(pre.fs, kq) /\ Exists(fs, kq)
         /\ ~Exists(pre.fs, vq) /\ Exists(fs, vq)
         /\ (DOMAIN fs) \ (DOMAIN pre.fs) \subseteq {kq, vq, sq}
         /\ \A q \in DOMAIN pre.fs : Exists(fs, q) /\ fs[q] = pre.fs[q]
         /\ \A k2 \in Keys \ {last.key}, ty \in Types :
              \A ord1 \in Listings(pre.fs, pre.kvs.path), ord2 \in Listings(fs, kvs.path) :
                 Lookup(fs, kvs, k2, ty, ord2).res = Lookup(pre.fs, pre.kvs, k2, ty, ord1).res

(* C19 *)

\* C19: in every reachable state insert(k, _) fails AlreadyExists exactly
\* when lookup(k) does not fail NotFound and exactly when remove(k) does not
\* fail NotFound.
C19_PresenceAgrees ==
  \A k \in Keys, ord \in Listings(fs, kvs.path) :
     LET taken == \E v \in Values : Insert(fs, kvs, k, v, ord).res = Err("AlreadyExists")
     IN  \A ty \in Types :
           /\ taken <=> Lookup(fs, kvs, k, ty, ord).res # Err("NotFound")
           /\ taken <=> Remove(fs, kvs, k, ty, ord).res # Err("NotFound")

(* C20 *)

\* C20: after a successful remove(k), insert(k, v2) returns Ok for every v2
\* and lookup(k) then returns v2.
C20_RemoveThenInsert ==
  Returned("remove") =>
     \A v2 \in Values, ord \in Listings(fs, kvs.path) :
        LET r == Insert(fs, kvs, last.key, v2, ord)
        IN  /\ r.res = Ok("unit")
            /\ \A ord2 \in Listings(r.fs, r.kvs.path) :
                 Lookup(r.fs, r.kvs, last.key, v2.ty, ord2).res = Ok(v2)

\* the removed value was an i32, so a String v2 differs from it
C20_Witness ==
  /\ Returned("remove")
  /\ last.res.val.ty = "i32"
  /\ \E v2 \in Values : v2.ty = "String"

(* C17 *)

\* C17: lookup and remove of a key whose two records are in its shard find
\* the entry and return the stored value (or its deserialization error),
\* whatever other directory of the root begins with the shard prefix and in
\* whatever order the root is listed.
C17_ShardByExactName ==
  ( /\ last.op \in {"lookup", "remove"}
    /\ Live(pre.fs, pre.kvs, last.key)
    /\ Exists(pre.fs, ValueRecord(pre.kvs, last.key)) )
  => last.res = FromJson(pre.fs[ValueRecord(pre.kvs, last.key)].data, last.ty)

(* C14 *)

\* C14: an insert in which a filesystem step fails returns an I/O error as
\* its result, has written neither the key-record nor the value-record, and
\* leaves size() unchanged.
C14_FailedStepReturnsError ==
  (last.op = "insert" /\ last.res.kind # "Ok" /\ last.res # Err("AlreadyExists")) =>
     /\ last.res = Err("Io")
     /\ ~Exists(fs, KeyRecord(kvs, last.key))
     /\ Exists(fs, ValueRecord(kvs, last.key)) =>
          /\ Exists(pre.fs, ValueRecord(kvs, last.key))
          /\ fs[ValueRecord(kvs, last.key)] = pre.fs[ValueRecord(kvs, last.key)]
     /\ size(kvs) = size(pre.kvs)

(* C15 *)

\* both handles have finished an insert of the same key and both returned Ok
BothOk ==
  /\ \A h \in Handles : conc.h[h].pc = "done" /\ conc.h[h].res = Ok("unit")
  /\ conc.h[1].key = conc.h[2].key

\* C15: an insert returns Ok only if the key-record was absent when it
\* looked, and one that saw it absent returns Ok unless create_dir fails;
\* when two concurrent inserts of one key both return Ok the entry is live
\* and holds the value written last.
C15_ConcurrentInsertsBothOk ==
  /\ \A h \in Handles :
       conc.h[h].pc = "done" =>
         /\ conc.h[h].res = Ok("unit") => conc.h[h].absent
         /\ conc.h[h].absent => conc.h[h].res \in {Ok("unit"), Err("Io")}
  /\ BothOk =>
       /\ Live(fs, kvs, conc.h[1].key)
       /\ fs[ValueRecord(kvs, conc.h[1].key)].data = ToJson(conc.h[conc.lastw].value)

\* both inserts of the same key returned Ok, with different values
C15_Witness ==
  /\ BothOk
  /\ conc.h[1].value.ty # conc.h[2].value.ty

====
